---- MODULE Spec2Model ----
(***************************************************************************)
(* EDL container decoder (src/edlCompress.py): header parsing, the EDL-0   *)
(* copy, the bit refiller (__helper), the table builder (__fill_buffer)    *)
(* and the EDL-1 frame loop (__decompress_edl1), as a state machine.       *)
(*                                                                         *)
(* Representation.  Python integers are unbounded; the 64-bit accumulator  *)
(* data[0] is kept as its sequence of bits, least significant first, with  *)
(* no trailing zero bit.  A 32-bit word is kept as its four bytes, least   *)
(* significant first.  Python lists and bytearrays are sequences; the      *)
(* element the code calls s[i] is At(s, i).                                *)
(***************************************************************************)
EXTENDS Integers, Sequences, FiniteSets, TLC

(***************************************************************************)
(* Bounds of the explored inputs.                                          *)
(***************************************************************************)
\* longest payload among the exhaustively enumerated ones
MaxPayloadLen == 2
\* largest declared decompressed_size among the EDL-0 inputs
MaxSize0 == 3
\* longest length vector handed to fill_buffer in the table-builder runs
MaxTotal == 3

(***************************************************************************)
(* Arithmetic on bits and bytes.                                           *)
(***************************************************************************)
Min(a, b) == IF a < b THEN a ELSE b

\* F(v), with v computed once and then read as a value
Let(v, F(_)) == CHOOSE r \in {F(w) : w \in {v}} : TRUE

RECURSIVE Pow2(_)
Pow2(n) == IF n <= 0 THEN 1 ELSE 2 * Pow2(n - 1)

At(s, i) == s[i + 1]

Put(s, i, v) == [s EXCEPT ![i + 1] = v]

Zeros(n) == [i \in 1..n |-> 0]

\* the value of a bit sequence, least significant bit first
RECURSIVE BitsVal(_)
BitsVal(s) == IF s = <<>> THEN 0 ELSE s[1] + 2 * BitsVal(Tail(s))

\* a bit sequence without its trailing zeros (one integer, one representation)
Trim(s) ==
    Let({i \in 1..Len(s) : s[i] = 1},
        LAMBDA ones : IF ones = {} THEN <<>>
                      ELSE SubSeq(s, 1, CHOOSE i \in ones : \A j \in ones : j <= i))

\* d & ((1 << n) - 1)
LowBits(d, n) == BitsVal(SubSeq(d, 1, Min(n, Len(d))))

\* d >> n
Shr(d, n) == SubSeq(d, n + 1, Len(d))

ByteBits(b) == [i \in 1..8 |-> (b \div Pow2(i - 1)) % 2]

\* the bits of a word given as four bytes, least significant byte first
WordBits(w) == ByteBits(w[1]) \o ByteBits(w[2]) \o ByteBits(w[3]) \o ByteBits(w[4])

\* (yb << n) | zb
ShlOr(yb, n, zb) ==
    LET m == IF n + Len(yb) > Len(zb) THEN n + Len(yb) ELSE Len(zb)
        yAt(i) == IF i > n /\ i - n <= Len(yb) THEN yb[i - n] ELSE 0
        zAt(i) == IF i <= Len(zb) THEN zb[i] ELSE 0
    IN  Trim([i \in 1..m |-> IF yAt(i) = 1 \/ zAt(i) = 1 THEN 1 ELSE 0])

(***************************************************************************)
(* The byte source (a BinaryIO): its bytes and the reader position.        *)
(***************************************************************************)
\* reader.read(n) at position p, n >= 0: the bytes returned
ReadBytes(f, p, n) == IF p >= Len(f) THEN <<>> ELSE SubSeq(f, p + 1, Min(p + n, Len(f)))

\* the reader position after reader.read(n) at position p
ReadEnd(f, p, n) == IF p >= Len(f) THEN p ELSE Min(p + n, Len(f))

\* int.from_bytes(bs, byteorder='little') of at most four bytes, as a word
FromBytesLittle(bs) == [i \in 1..4 |-> IF i <= Len(bs) THEN bs[i] ELSE 0]

\* the integer a word stands for
WordVal(w) == w[1] + 256 * w[2] + 65536 * w[3] + 16777216 * w[4]

\* ByteSwap.swap: ((w >> 24) | ((w >> 8) & 0xff00) | ((w << 8) & 0xff0000) | (w << 24)) & 0xFFFFFFFF
ByteSwap(w) == <<w[4], w[3], w[2], w[1]>>

(***************************************************************************)
(* EdlHeader.parse and the dispatch of __decompress_as_bytearray.          *)
(***************************************************************************)
MagicEDL == <<69, 68, 76>>

\* binary_io.read(3).decode('ascii') != "EDL": the error raised, or "" for none
MagicError(bs) ==
    IF \E i \in 1..Len(bs) : bs[i] > 127 THEN "UnicodeDecodeError"
    ELSE IF bs # MagicEDL THEN "ValueError: Not a valid EDL file"
    ELSE ""

EndianOf(c) == IF c \div 128 = 1 THEN "Big" ELSE "Little"

\* a size field: read little-endian, byte-swapped when the file is big-endian
SizeField(bs, e) ==
    LET w == FromBytesLittle(bs) IN WordVal(IF e = "Big" THEN ByteSwap(w) ELSE w)

\* a faulty variant of CompressionType: the whole flags byte is the type
CompressionTypeWholeByte(c) == c

CompressionType(c) == c % 16

\* the fields EdlHeader.parse returns for the header read at position p
ParseHeader(f, p) ==
    LET c == WordVal(FromBytesLittle(ReadBytes(f, p + 3, 1)))
        e == EndianOf(c)
    IN  [compression_type |-> CompressionType(c),
         endian |-> e,
         compressed_size |-> SizeField(ReadBytes(f, p + 4, 4), e),
         decompressed_size |-> SizeField(ReadBytes(f, p + 8, 4), e)]

\* where __decompress_as_bytearray goes for a compression type
Dispatch(t) == IF t = 0 THEN "edl0" ELSE IF t = 1 THEN "loop" ELSE "raised"

(***************************************************************************)
(* __decompress_edl0                                                       *)
(***************************************************************************)
\* a faulty variant of Edl0Length: the payload is not clamped to the declared size
Edl0LengthUnclamped(reader_size, dsize) == reader_size

Edl0Length(reader_size, dsize) == Min(reader_size, dsize)

\* a faulty variant of Edl0Start: the header is skipped from the start of the source
Edl0StartAbsolute(offset) == 12

\* reader.seek(stream_offset + 12, 0): where the payload is read from
Edl0Start(offset) == offset + 12

(***************************************************************************)
(* __helper: the refill.                                                   *)
(***************************************************************************)
\* bytes to retrieve from file
HelperX(max_size, p) == IF max_size - p > 4 THEN 4 ELSE max_size - p

\* what the refill returns when the reader is at the end of the data
HelperAtEnd(bit_count, xb) == xb

\* the word read at stream_offset + pos
HelperWord(f, so, p, e) ==
    LET w == FromBytesLittle(ReadBytes(f, so + p, 4))
    IN  IF e # "Little" THEN ByteSwap(w) ELSE w

(***************************************************************************)
(* __fill_buffer(large, what, total, num, buf_size)                        *)
(***************************************************************************)
\* a | b
RECURSIVE BitOr(_, _)
BitOr(a, b) ==
    IF a = 0 THEN b
    ELSE IF b = 0 THEN a
    ELSE (IF a % 2 = 1 \/ b % 2 = 1 THEN 1 ELSE 0) + 2 * BitOr(a \div 2, b \div 2)

\* while y != 1: samp = (samp << 1) + (y & 1); y = y >> 1
RECURSIVE ReverseSample(_, _)
ReverseSample(yv, acc) ==
    IF yv <= 1 THEN acc ELSE ReverseSample(yv \div 2, 2 * acc + (yv % 2))

\* the indexes i < total with what[i] = len, in increasing order
Occurrences(wh, total, len) ==
    LET Hit(i) == wh[i + 1] = len
    IN  SelectSeq([i \in 1..total |-> i - 1], Hit)

\* build an occurrence table: the indexes by length 1..15, then by index
RECURSIVE OccurrenceTable(_, _, _)
OccurrenceTable(wh, total, len) ==
    IF len > 15 THEN <<>>
    ELSE Occurrences(wh, total, len) \o OccurrenceTable(wh, total, len + 1)

\* sort nibbles: number[1] ones, number[2] twos, ...
RECURSIVE SortedNibbles(_, _, _)
SortedNibbles(wh, total, len) ==
    IF len > 15 THEN <<>>
    ELSE [i \in 1..Len(Occurrences(wh, total, len)) |-> len] \o SortedNibbles(wh, total, len + 1)

\* (when[x] << 7) + what[x]
TableEntry(sym, len) == sym * 128 + len

\* a faulty variant of PrimaryStride: every other entry of a short code is skipped
PrimaryStrideDoubled(len) == Pow2(len + 1)

\* y = 1 << back: the stride of the entries of a code shorter than buf_size
PrimaryStride(len) == Pow2(len)

\* if z > 0x1FF: return -9
OverflowLimit == 511

\* the fields of a table entry: x & 0xF, (x >> 4) & 7, x >> 7
EntryBits(e) == e % 16

EntryExtra(e) == (e \div 16) % 8

EntryData(e) == e \div 128

\* the table entry the emit loop selects for the accumulator value d:
\* x = tab[d & mask]; when x & 0xF is 0, the backtrack entry
\* tab[(x >> 7) + ((d >> buf_size) & ((1 << z) - 1)) + (1 << buf_size)]
Lookup(tab, buf_size, d) ==
    LET e == At(tab, d % Pow2(buf_size))
    IN  IF EntryBits(e) # 0 THEN e
        ELSE At(tab, EntryData(e) + ((d \div Pow2(buf_size)) % Pow2(EntryExtra(e))) + Pow2(buf_size))

\* generate bitsample table, entry i: z the previous length, back the
\* increment counter
SampleStep(wh, st, i) ==
    LET yv == At(wh, i)
        bk == IF yv # st.z THEN st.back * Pow2(yv - st.z) ELSE st.back
    IN  [samp |-> Append(st.samp, ReverseSample(BitOr(Pow2(yv), bk), 0)),
         z |-> yv, back |-> bk + 1]

\* for x in range(a, b + 1), in order: the first half of the range, then the
\* second, which starts from the state the first half ends in
RECURSIVE SampleLoop(_, _, _, _)
SampleLoop(wh, a, b, st) ==
    IF a > b THEN st
    ELSE IF a = b THEN SampleStep(wh, st, a)
    ELSE Let((a + b) \div 2,
             LAMBDA m : Let(SampleLoop(wh, a, m, st),
                            LAMBDA first : SampleLoop(wh, m + 1, b, first)))

\* large[z] = v for z = start, start + stride, ... while z < limit: the
\* stores numbered a..b of the while loop, in order
RECURSIVE StoreLoop(_, _, _, _, _, _)
StoreLoop(start, stride, v, a, b, lg) ==
    IF a > b THEN lg
    ELSE IF a = b THEN Put(lg, start + a * stride, v)
    ELSE Let((a + b) \div 2,
             LAMBDA m : Let(StoreLoop(start, stride, v, a, m, lg),
                            LAMBDA first : StoreLoop(start, stride, v, m + 1, b, first)))

\* the number of rounds of: while z < limit: ...; z += stride
Rounds(start, stride, limit) ==
    IF start >= limit THEN 0 ELSE ((limit - 1 - start) \div stride) + 1

\* fill buffer, entry i: c holds what, when, samp and buf_size
FillStep(c, st, i) ==
    LET len == At(c.what, i)
        sm == At(c.samp, i)
        stride == PrimaryStride(len)
        size == Pow2(c.buf_size)
    IN  IF len < c.buf_size
        THEN [large |-> StoreLoop(sm, stride, TableEntry(At(c.when, i), len),
                                  0, Rounds(sm, stride, size) - 1, st.large),
              buf |-> st.buf]
        ELSE [large |-> st.large, buf |-> Put(st.buf, sm % size, len)]

RECURSIVE FillLoop(_, _, _, _)
FillLoop(c, a, b, st) ==
    IF a > b THEN st
    ELSE IF a = b THEN FillStep(c, st, a)
    ELSE Let((a + b) \div 2,
             LAMBDA m : Let(FillLoop(c, a, m, st),
                            LAMBDA first : FillLoop(c, m + 1, b, first)))

\* read coded types > buffer_size, slot i of buf: z the number of overflow
\* entries reserved, ret the code returned so far
HeaderStep(buf, buf_size, st, i) ==
    LET yv == At(buf, i) - buf_size IN
    IF st.ret # 0 \/ At(buf, i) = 0 THEN st
    ELSE IF yv > 8 THEN [st EXCEPT !.ret = -8]
    ELSE [large |-> Put(st.large, i, st.z * 128 + yv * 16), z |-> st.z + Pow2(yv), ret |-> 0]

\* the slots x of buf with buf[x] != 0, in increasing order: the others are
\* skipped by the loop
HeaderSlots(buf) ==
    LET Coded(i) == At(buf, i) # 0
    IN  SelectSeq([i \in 1..Len(buf) |-> i - 1], Coded)

\* while x >> buf_size == 0, over the coded slots numbered a..b of sl
RECURSIVE HeaderLoop(_, _, _, _, _, _)
HeaderLoop(buf, buf_size, sl, a, b, st) ==
    IF a > b THEN st
    ELSE IF a = b THEN HeaderStep(buf, buf_size, st, sl[a])
    ELSE Let((a + b) \div 2,
             LAMBDA m : Let(HeaderLoop(buf, buf_size, sl, a, m, st),
                            LAMBDA first : HeaderLoop(buf, buf_size, sl, m + 1, b, first)))

\* do something tricky with the special entries, entry i
SpecialStep(c, lg, i) ==
    LET len == At(c.what, i)
        size == Pow2(c.buf_size)
        zv == At(lg, At(c.samp, i) % size)
        y0 == At(c.samp, i) \div size
        stride == Pow2(len - c.buf_size)
        lim == Pow2(EntryExtra(zv))
        base == EntryData(zv) + size
    IN  IF len < c.buf_size THEN lg
        ELSE StoreLoop(base + y0, stride, TableEntry(At(c.when, i), len),
                       0, Rounds(y0, stride, lim) - 1, lg)

RECURSIVE SpecialLoop(_, _, _, _)
SpecialLoop(c, a, b, lg) ==
    IF a > b THEN lg
    ELSE IF a = b THEN SpecialStep(c, lg, a)
    ELSE Let((a + b) \div 2,
             LAMBDA m : Let(SpecialLoop(c, a, m, lg),
                            LAMBDA first : SpecialLoop(c, m + 1, b, first)))

\* what, after the sort: the nonzero nibbles in increasing order, then the
\* entries the sort does not reach
SortedWhat(what0, total) ==
    Let(SortedNibbles(what0, total, 1),
        LAMBDA sorted : [i \in 1..Len(what0) |-> IF i <= Len(sorted) THEN sorted[i] ELSE what0[i]])

\* the last loop and the return: heads is the state the header loop ends in
FillFinish(c, n, heads) ==
    IF heads.ret # 0
    THEN [ret |-> heads.ret, err |-> "", large |-> heads.large, what |-> c.what]
    ELSE IF heads.z > OverflowLimit
    THEN [ret |-> -9, err |-> "", large |-> heads.large, what |-> c.what]
    ELSE [ret |-> 0, err |-> "", large |-> SpecialLoop(c, 0, n - 1, heads.large), what |-> c.what]

\* read coded types > buffer_size: primary is the state the fill loop ends in
FillHeads(c, primary) ==
    Let(HeaderSlots(primary.buf),
        LAMBDA slots : HeaderLoop(primary.buf, c.buf_size, slots, 1, Len(slots),
                                  [large |-> primary.large, z |-> 0, ret |-> 0]))

\* fill buffer, then the coded types, then the special entries
FillTables(lg0, c, n) ==
    Let(FillLoop(c, 0, n - 1, [large |-> lg0, buf |-> Zeros(Pow2(c.buf_size))]),
        LAMBDA primary : Let(FillHeads(c, primary),
                             LAMBDA heads : FillFinish(c, n, heads)))

\* the loops after the sort: when0 the occurrence table, wh the sorted what
FillSorted(lg0, what0, when0, wh, n, buf_size) ==
    IF Len(when0) > n
    THEN [ret |-> 0, err |-> "IndexError: list assignment index out of range", large |-> lg0, what |-> what0]
    ELSE IF \E i \in 1..(n - 1) : wh[i + 1] < wh[i]
    THEN [ret |-> 0, err |-> "ValueError: negative shift count", large |-> lg0, what |-> wh]
    ELSE Let([what |-> wh,
              when |-> [i \in 1..n |-> IF i <= Len(when0) THEN when0[i] ELSE 0],
              samp |-> SampleLoop(wh, 0, n - 1, [samp |-> <<>>, z |-> At(wh, 0), back |-> 0]).samp,
              buf_size |-> buf_size],
             LAMBDA c : FillTables(lg0, c, n))

\* the value returned (ret), the error raised (err, "" for none), and large
\* and what as the call leaves them
FillBuffer(large0, what0, total, n, buf_size) ==
    Let(large0 \o Zeros(3072 - Len(large0)),
        LAMBDA lg0 : Let(OccurrenceTable(what0, total, 1),
                         LAMBDA when0 : Let(SortedWhat(what0, total),
                                            LAMBDA wh : FillSorted(lg0, what0, when0, wh, n, buf_size))))

\* __erratta: the error raised for a code, or "" for none
Erratta(code) ==
    IF code >= 0 THEN ""
    ELSE IF code = -8 THEN "ValueError: Not a valid table entry"
    ELSE IF code = -9 THEN "ValueError: Samples exceed maximum bitcount"
    ELSE IF code = -12 THEN "ValueError: Internal error"
    ELSE ""

(***************************************************************************)
(* The static tables of __decompress_edl1.                                 *)
(***************************************************************************)
table1 == <<0, 1, 2, 3, 4, 5, 6, 7, 8, 10,
            12, 14, 16, 20, 24, 28, 32, 40, 48, 56,
            64, 80, 96, 112, 128, 160, 192, 224, 255, 0,
            0, 0>>

table2 == <<0, 0, 0, 0, 0, 0, 0, 0, 1, 1,
            1, 1, 2, 2, 2, 2, 3, 3, 3, 3,
            4, 4, 4, 4, 5, 5, 5, 5, 0, 0,
            0, 0>>

table3 == <<0, 1, 2, 3, 4, 6, 8, 12, 16, 24,
            32, 48, 64, 96, 128, 192, 256, 384, 512, 768,
            1024, 1536, 2048, 3072, 4096, 6144, 8192, 12288, 16384, 24576>>

table4 == <<0, 0, 0, 0, 1, 1, 2, 2, 3, 3,
            4, 4, 5, 5, 6, 6, 7, 7, 8, 8,
            9, 9, 10, 10, 11, 11, 12, 12, 13, 13, 0, 0>>

\* num = z + y + 3
CopyLength(zv, yv) == zv + yv + 3

\* back = z + y + 1
BackDistance(zv, yv) == zv + yv + 1

\* a faulty variant of AfterShift: y keeps the bit count of the entry
AfterShiftKept(yv) == yv

\* data[0] >>= y; count -= y; y = 0: y once the entry's bits are dropped
AfterShift(yv) == 0

\* a faulty variant of CopyByte: a distance before the output start reads the first byte
CopyByteClamped(res, ai, bk) ==
    IF ai - bk < 0 THEN At(res, 0) ELSE At(res, ai - bk)

\* the byte a copy step writes: 0 when z < 0 or z >= array_index
CopyByte(res, ai, bk) ==
    IF ai - bk < 0 \/ ai - bk >= ai THEN 0 ELSE At(res, ai - bk)

(***************************************************************************)
(* State.                                                                  *)
(***************************************************************************)
VARIABLES
    file, stream_offset, rpos,          \* the reader: its bytes, tell() at the call, tell() now
    compression_type, endian, compressed_size, decompressed_size,   \* EdlHeader
    pc, filled,                         \* position in the code; whether the refill of this position ran
    data, count, pos,                   \* data[0], count, pos[0]
    x, y, z, stack, num, back,          \* the locals of __decompress_edl1
    what, large, small_array,
    result, array_index,
    ret, err, writer                    \* the buffer returned, the error raised, what writer.write received

src == <<file, stream_offset>>
hdr == <<compression_type, endian, compressed_size, decompressed_size>>
bitr == <<data, count, pos>>
regs == <<x, y, z, stack, num, back>>
tabs == <<what, large, small_array>>
outb == <<result, array_index>>
fin == <<ret, err, writer>>
vars == <<src, rpos, hdr, pc, filled, bitr, regs, tabs, outb, fin>>

(***************************************************************************)
(* Inputs: a reader positioned at stream_offset, holding a 12-byte header  *)
(* and a payload.                                                          *)
(***************************************************************************)
\* a size as it is stored in a file of the given flags byte
SizeBytes(flags, v) ==
    LET w == <<v % 256, (v \div 256) % 256, (v \div 65536) % 256, v \div 16777216>>
    IN  IF flags \div 128 = 1 THEN <<w[4], w[3], w[2], w[1]>> ELSE w

HeaderBytes(magic, flags, cs, n) == magic \o <<flags>> \o SizeBytes(flags, cs) \o SizeBytes(flags, n)

\* the payload as stored in a file of the given flags byte: a big-endian file
\* stores every 32-bit word of the stream most significant byte first
RECURSIVE WordSwapped(_)
WordSwapped(p) ==
    IF p = <<>> THEN <<>>
    ELSE LET q == FromBytesLittle(SubSeq(p, 1, Min(4, Len(p))))
         IN  <<q[4], q[3], q[2], q[1]>> \o WordSwapped(SubSeq(p, 5, Len(p)))

Stored(flags, p) == IF flags \div 128 = 1 THEN WordSwapped(p) ELSE p

Prefix(so) == [i \in 1..so |-> 85]

\* an input: the reader's bytes and its position at the call
MakeFile(so, magic, flags, cs, n, p) ==
    [so |-> so, f |-> Prefix(so) \o HeaderBytes(magic, flags, cs, n) \o p]

RECURSIVE SeqsUpTo(_, _)
SeqsUpTo(S, n) ==
    IF n = 0 THEN {<<>>}
    ELSE LET R == SeqsUpTo(S, n - 1)
         IN  R \cup {Append(s, b) : s \in {r \in R : Len(r) = n - 1}, b \in S}

Offsets == {0, 2}

PayloadBytes == {0, 1, 2, 171}

EnumPayloads == SeqsUpTo(PayloadBytes, MaxPayloadLen)

\* headers: magic, flags byte (endian bit, bits 4..6, compression type)
HeaderInputs ==
    {MakeFile(so, m, fl, 16, 2, <<7, 9>>) :
        so \in Offsets, m \in {MagicEDL, <<69, 68, 75>>, <<200, 68, 76>>},
        fl \in {0, 1, 2, 15, 64, 113, 128, 129, 130, 240}}

Edl0Inputs ==
    {MakeFile(so, MagicEDL, fl, 0, n, p) :
        so \in Offsets, fl \in {0, 128, 32}, n \in 0..MaxSize0, p \in EnumPayloads}
    \cup {MakeFile(0, MagicEDL, 128, 4, 4, <<222, 173, 190, 239>>),
          \* sizes of a little-endian writer under the big-endian flag
          [so |-> 0, f |-> <<69, 68, 76, 128, 4, 0, 0, 0, 4, 0, 0, 0, 222, 173, 190, 239>>]}

Edl1Sizes == {0, 13, 16}

Edl1EnumInputs ==
    {MakeFile(so, MagicEDL, fl, cs, n, Stored(fl, p)) :
        so \in {0}, fl \in {1, 129}, cs \in {0, 100}, n \in Edl1Sizes, p \in EnumPayloads}

(***************************************************************************)
(* EDL-1 streams with tables.  Every mode-1 frame below carries a large     *)
(* table of 290 slots with code lengths 0x41:2, 0x42:2, 0x100:2, 0x101:3,   *)
(* 0x109:4, 0x11D:5, 0x11E:6, 0x120:7, 0x121:8, 0x43:11 and a small table   *)
(* of 33 slots with code lengths 0:1, 4:2, 30:3, 32:4, 2:9.                 *)
(***************************************************************************)
\* 'A' 'B' 'C', copy 3 back 1, copy 12 back 6, copy 3 back 3, end, EOF 1
StreamPlain ==
    <<69, 2, 0, 0, 0, 0, 0, 0, 0, 40, 110, 0, 0, 0, 0, 0,
      0, 0, 0, 0, 0, 0, 0, 0, 0, 0, 0, 0, 0, 0, 0, 0,
      0, 0, 64, 57, 1, 72, 1, 0, 128, 213, 194, 139, 33, 70, 152, 161,
      4, 0, 0, 128, 19, 18, 254, 99, 110, 247, 160>>

\* 'A', copy 258 back 1, end, EOF 1
StreamLong ==
    <<69, 2, 0, 0, 0, 0, 0, 0, 0, 40, 110, 0, 0, 0, 0, 0,
      0, 0, 0, 0, 0, 0, 0, 0, 0, 0, 0, 0, 0, 0, 0, 0,
      0, 0, 64, 57, 1, 72, 1, 0, 128, 213, 194, 139, 33, 70, 152, 161,
      4, 0, 0, 128, 19, 18, 79, 1>>

\* 'A', length symbol 0x11E distance 0, length symbol 0x120 distance 0, end, EOF 1
StreamPast ==
    <<69, 2, 0, 0, 0, 0, 0, 0, 0, 40, 110, 0, 0, 0, 0, 0,
      0, 0, 0, 0, 0, 0, 0, 0, 0, 0, 0, 0, 0, 0, 0, 0,
      0, 0, 64, 57, 1, 72, 1, 0, 128, 213, 194, 139, 33, 70, 152, 161,
      4, 0, 0, 128, 19, 18, 159, 159, 2>>

\* 'A', length symbol 0x121
StreamPastLen ==
    <<69, 2, 0, 0, 0, 0, 0, 0, 0, 40, 110, 0, 0, 0, 0, 0,
      0, 0, 0, 0, 0, 0, 0, 0, 0, 0, 0, 0, 0, 0, 0, 0,
      0, 0, 64, 57, 1, 72, 1, 0, 128, 213, 194, 139, 33, 70, 152, 161,
      4, 0, 0, 128, 19, 18, 127, 10>>

\* 'A', length symbol 0x101, distance symbol 30
StreamPastDist30 ==
    <<69, 2, 0, 0, 0, 0, 0, 0, 0, 40, 110, 0, 0, 0, 0, 0,
      0, 0, 0, 0, 0, 0, 0, 0, 0, 0, 0, 0, 0, 0, 0, 0,
      0, 0, 64, 57, 1, 72, 1, 0, 128, 213, 194, 139, 33, 70, 152, 161,
      4, 0, 0, 128, 19, 18, 91, 1>>

\* 'A', length symbol 0x101, distance symbol 32
StreamPastDist32 ==
    <<69, 2, 0, 0, 0, 0, 0, 0, 0, 40, 110, 0, 0, 0, 0, 0,
      0, 0, 0, 0, 0, 0, 0, 0, 0, 0, 0, 0, 0, 0, 0, 0,
      0, 0, 64, 57, 1, 72, 1, 0, 128, 213, 194, 139, 33, 70, 152, 161,
      4, 0, 0, 128, 19, 18, 187, 2>>

\* 'A', end, EOF 0; a mode-1 frame with the same tables again: 'B', copy 3 back 1, end, EOF 1
StreamRebuild ==
    <<69, 2, 0, 0, 0, 0, 0, 0, 0, 40, 110, 0, 0, 0, 0, 0,
      0, 0, 0, 0, 0, 0, 0, 0, 0, 0, 0, 0, 0, 0, 0, 0,
      0, 0, 64, 57, 1, 72, 1, 0, 128, 213, 194, 139, 33, 70, 152, 161,
      4, 0, 0, 128, 19, 18, 41, 50, 0, 0, 0, 0, 0, 0, 0, 0,
      20, 55, 0, 0, 0, 0, 0, 0, 0, 0, 0, 0, 0, 0, 0, 0,
      0, 0, 0, 0, 0, 0, 0, 0, 0, 160, 156, 0, 164, 0, 0, 192,
      106, 225, 197, 16, 35, 204, 80, 2, 0, 0, 192, 9, 201, 41>>

\* 'A', end, EOF 0; a mode-0 frame 7 9, EOF 0; a mode-1 frame without tables: 'B', copy 3 back 5, end, EOF 1
StreamFrames ==
    <<69, 2, 0, 0, 0, 0, 0, 0, 0, 40, 110, 0, 0, 0, 0, 0,
      0, 0, 0, 0, 0, 0, 0, 0, 0, 0, 0, 0, 0, 0, 0, 0,
      0, 0, 64, 57, 1, 72, 1, 0, 128, 213, 194, 139, 33, 70, 152, 161,
      4, 0, 0, 128, 19, 18, 33, 0, 56, 72, 16, 0, 0, 151, 2>>

\* 'A' 'B', copy 12 back 6 (one extra bit each), end, EOF 0; a mode-0 frame
\* 7 9, EOF 0; a mode-1 frame with the same tables again: 'B', copy 3 back 1,
\* end, EOF 1
StreamMixed ==
    <<69, 2, 0, 0, 0, 0, 0, 0, 0, 40, 110, 0, 0, 0, 0, 0,
      0, 0, 0, 0, 0, 0, 0, 0, 0, 0, 0, 0, 0, 0, 0, 0,
      0, 0, 64, 57, 1, 72, 1, 0, 128, 213, 194, 139, 33, 70, 152, 161,
      4, 0, 0, 128, 19, 18, 222, 134, 0, 224, 32, 65, 145, 1, 0, 0,
      0, 0, 0, 0, 0, 160, 184, 1, 0, 0, 0, 0, 0, 0, 0, 0,
      0, 0, 0, 0, 0, 0, 0, 0, 0, 0, 0, 0, 0, 0, 0, 229,
      4, 32, 5, 0, 0, 86, 11, 47, 134, 24, 97, 134, 18, 0, 0, 0,
      78, 72, 78, 1>>

\* mode 0, num = 0, EOF 1
StreamEmpty == <<0, 0, 1>>

Edl1StreamInputs ==
    {MakeFile(0, MagicEDL, fl, 100, n, Stored(fl, StreamPlain)) : fl \in {1, 129}, n \in {64, 71}}
    \cup {MakeFile(2, MagicEDL, 1, 100, 100, StreamPlain)}
    \cup {MakeFile(0, MagicEDL, 1, 100, n, StreamLong) : n \in {68, 259, 272}}
    \cup {MakeFile(0, MagicEDL, 1, 100, 69, p) : p \in {StreamPast, StreamPastLen, StreamPastDist30, StreamPastDist32}}
    \cup {MakeFile(0, MagicEDL, 1, 200, 122, StreamRebuild),
          MakeFile(0, MagicEDL, 1, 100, 75, StreamFrames),
          MakeFile(0, MagicEDL, 1, 200, 128, StreamMixed)}
    \cup {MakeFile(0, MagicEDL, fl, 12, n, Stored(fl, StreamEmpty)) : fl \in {1, 129}, n \in {0, 5, 16}}

Inputs == HeaderInputs \cup Edl0Inputs \cup Edl1EnumInputs \cup Edl1StreamInputs

Init ==
    /\ \E in \in Inputs :
          /\ file = in.f
          /\ stream_offset = in.so
          /\ rpos = in.so
    /\ compression_type = 0 /\ endian = "Little"
    /\ compressed_size = 0 /\ decompressed_size = 0
    /\ pc = "start" /\ filled = FALSE
    /\ data = <<>> /\ count = 0 /\ pos = 0
    /\ x = 0 /\ y = 0 /\ z = 0 /\ stack = 0 /\ num = 0 /\ back = 0
    /\ what = Zeros(1024) /\ large = Zeros(1536) /\ small_array = Zeros(1536)
    /\ result = <<>> /\ array_index = 0
    /\ ret = <<>> /\ err = "" /\ writer = <<>>

(***************************************************************************)
(* Ends of the call.                                                       *)
(***************************************************************************)
Go(p) == pc' = p /\ UNCHANGED fin

Raise(e) == pc' = "raised" /\ err' = e /\ UNCHANGED <<ret, writer>>

Return(buf) == pc' = "returned" /\ ret' = buf /\ UNCHANGED <<err, writer>>

\* result[:n]
Slice(res, n) == SubSeq(res, 1, Min(n, Len(res)))

IndexErrorBytes == "IndexError: bytearray index out of range"

IndexErrorList == "IndexError: list index out of range"

(***************************************************************************)
(* __decompress_as_bytearray: parse the header, dispatch.                  *)
(***************************************************************************)
DecompressAsBytearray ==
    /\ pc = "start"
    /\ LET me == MagicError(ReadBytes(file, rpos, 3))
           h == ParseHeader(file, rpos)
           to == Dispatch(h.compression_type)
       IN  IF me # ""
           THEN /\ Raise(me)
                /\ rpos' = ReadEnd(file, rpos, 3)
                /\ UNCHANGED <<hdr, pos, result>>
           ELSE /\ compression_type' = h.compression_type
                /\ endian' = h.endian
                /\ compressed_size' = h.compressed_size
                /\ decompressed_size' = h.decompressed_size
                /\ rpos' = ReadEnd(file, rpos, 12)
                /\ IF to = "raised"
                   THEN Raise("ValueError: Unsupported compression type")
                   ELSE Go(to)
                /\ IF to = "loop"
                   THEN result' = Zeros(h.decompressed_size) /\ pos' = pos + 12
                   ELSE UNCHANGED <<result, pos>>
    /\ filled' = FALSE
    /\ UNCHANGED <<src, data, count, regs, tabs, array_index>>

(***************************************************************************)
(* __decompress_edl0                                                       *)
(***************************************************************************)
DecompressEdl0 ==
    /\ pc = "edl0"
    /\ LET reader_size == Len(file) - 12
           length == Edl0Length(reader_size, decompressed_size)
           start == Edl0Start(stream_offset)
       IN  /\ rpos' = ReadEnd(file, start, length)
           /\ Return(ReadBytes(file, start, length))
    /\ filled' = FALSE
    /\ UNCHANGED <<src, hdr, bitr, regs, tabs, outb>>

(***************************************************************************)
(* __helper, called at every position of RefillPCs before its bits are     *)
(* read.                                                                   *)
(***************************************************************************)
RefillPCs == {"mode", "lcount", "lflag", "lnib", "scount", "sflag", "snib",
              "emit", "emit_bt", "lenx", "dist", "dist_bt", "distx", "rawnum", "raw"}

Helper ==
    /\ pc \in RefillPCs /\ ~filled
    /\ UNCHANGED <<src, hdr, regs, tabs, outb>>
    /\ IF count > 32
       THEN /\ UNCHANGED <<bitr, rpos>>
            /\ filled' = TRUE /\ Go(pc)
       ELSE LET xb == HelperX(decompressed_size, pos) IN
            IF rpos >= Len(file)
            THEN /\ count' = HelperAtEnd(count, xb)
                 /\ UNCHANGED <<data, pos, rpos>>
                 /\ filled' = TRUE /\ Go(pc)
            ELSE \E yb \in {WordBits(HelperWord(file, stream_offset, pos, endian))} :
                 /\ rpos' = ReadEnd(file, stream_offset + pos, 4)
                 /\ pos' = pos + xb
                 /\ IF count < 0
                    THEN /\ data' = Trim(yb) /\ count' = count
                         /\ filled' = FALSE
                         /\ Raise("ValueError: negative shift count")
                    ELSE /\ data' = ShlOr(yb, count, data)
                         /\ count' = count + 8 * xb
                         /\ filled' = TRUE /\ Go(pc)

(***************************************************************************)
(* __decompress_edl1: the frame loop.                                      *)
(***************************************************************************)
\* while pos[0] <= header.compressed_size
FrameLoop ==
    /\ pc = "loop"
    /\ IF pos <= compressed_size
       THEN Go("mode")
       ELSE Return(Slice(result, array_index))
    /\ filled' = FALSE
    /\ UNCHANGED <<src, rpos, hdr, bitr, regs, tabs, outb>>

ReadMode ==
    /\ pc = "mode" /\ filled
    /\ x' = LowBits(data, 1)
    /\ data' = Shr(data, 1)
    /\ count' = count - 1
    /\ Go(IF x' # 0 THEN "lcount" ELSE "rawnum")
    /\ filled' = FALSE
    /\ UNCHANGED <<src, rpos, hdr, pos, y, z, stack, num, back, tabs, outb>>

\* mode 0: the 15-bit run length
RawNum ==
    /\ pc = "rawnum" /\ filled
    /\ num' = LowBits(data, 15)
    /\ data' = Shr(data, 15)
    /\ count' = count - 15
    /\ Go(IF num' # 0 THEN "raw" ELSE "eof")
    /\ filled' = FALSE
    /\ UNCHANGED <<src, rpos, hdr, pos, x, y, z, stack, back, tabs, outb>>

\* mode 0: one raw byte
RawByte ==
    /\ pc = "raw" /\ filled
    /\ x' = LowBits(data, 8)
    /\ data' = Shr(data, 8)
    /\ count' = count - 8
    /\ IF array_index >= Len(result)
       THEN /\ Raise(IndexErrorBytes)
            /\ UNCHANGED <<outb, num>>
       ELSE /\ result' = Put(result, array_index, x')
            /\ array_index' = array_index + 1
            /\ num' = num - 1
            /\ Go(IF num' > 0 THEN "raw" ELSE "eof")
    /\ filled' = FALSE
    /\ UNCHANGED <<src, rpos, hdr, pos, y, z, stack, back, tabs>>

\* the buffer returned on the EOF marker
EofReturn(res, ai) == res

\* test EOF
EofTest ==
    /\ pc = "eof"
    /\ x' = LowBits(data, 1)
    /\ data' = Shr(data, 1)
    /\ count' = count - 1
    /\ IF x' # 0
       THEN Return(EofReturn(result, array_index))
       ELSE Go("loop")
    /\ filled' = FALSE
    /\ UNCHANGED <<src, rpos, hdr, pos, y, z, stack, num, back, tabs, outb>>

(***************************************************************************)
(* Mode 1: the large table.                                                *)
(***************************************************************************)
\* what[y] = stack; if stack != 0: num += 1
StoreNibble(wh, yv, st) == Put(wh, yv, st)

NonZero(st) == IF st # 0 THEN 1 ELSE 0

ReadLargeCount ==
    /\ pc = "lcount" /\ filled
    /\ x' = LowBits(data, 9)
    /\ data' = Shr(data, 9)
    /\ count' = count - 9
    /\ IF x' # 0
       THEN /\ what' = Zeros(Len(what))
            /\ num' = 0
            /\ Go(IF y < x' THEN "lflag" ELSE "lbuild")
       ELSE /\ UNCHANGED <<what, num>>
            /\ Go("scount")
    /\ filled' = FALSE
    /\ UNCHANGED <<src, rpos, hdr, pos, y, z, stack, back, large, small_array, outb>>

\* fill table with nibbles: the flag bit of slot y
LargeFlag ==
    /\ pc = "lflag" /\ filled
    /\ back' = LowBits(data, 1)
    /\ data' = Shr(data, 1)
    /\ count' = count - 1
    /\ IF back' # 0
       THEN /\ Go("lnib")
            /\ UNCHANGED <<what, num, y>>
       ELSE /\ what' = StoreNibble(what, y, stack)
            /\ num' = num + NonZero(stack)
            /\ y' = y + 1
            /\ Go(IF y' < x THEN "lflag" ELSE "lbuild")
    /\ filled' = FALSE
    /\ UNCHANGED <<src, rpos, hdr, pos, x, z, stack, large, small_array, outb>>

\* grab nibble
LargeNibble ==
    /\ pc = "lnib" /\ filled
    /\ stack' = LowBits(data, 4)
    /\ data' = Shr(data, 4)
    /\ count' = count - 4
    /\ what' = StoreNibble(what, y, stack')
    /\ num' = num + NonZero(stack')
    /\ y' = y + 1
    /\ Go(IF y' < x THEN "lflag" ELSE "lbuild")
    /\ filled' = FALSE
    /\ UNCHANGED <<src, rpos, hdr, pos, x, z, back, large, small_array, outb>>

\* x = self.__fill_buffer(large, what, x, num, 10); self.__erratta(x)
BuildLarge ==
    /\ pc = "lbuild"
    /\ \E r \in {FillBuffer(large, what, x, num, 10)} :
          LET e == IF r.err # "" THEN r.err ELSE Erratta(r.ret)
          IN  /\ large' = r.large
              /\ what' = r.what
              /\ x' = IF r.err # "" THEN x ELSE r.ret
              /\ IF e # "" THEN Raise(e) ELSE Go("scount")
    /\ filled' = FALSE
    /\ UNCHANGED <<src, rpos, hdr, bitr, y, z, stack, num, back, small_array, outb>>

(***************************************************************************)
(* Mode 1: the small table.                                                *)
(***************************************************************************)
ReadSmallCount ==
    /\ pc = "scount" /\ filled
    /\ x' = LowBits(data, 9)
    /\ data' = Shr(data, 9)
    /\ count' = count - 9
    /\ IF x' # 0
       THEN /\ what' = Zeros(1024)
            /\ num' = 0
            /\ y' = 0
            /\ Go("sflag")
       ELSE /\ UNCHANGED <<what, num, y>>
            /\ Go("emit")
    /\ filled' = FALSE
    /\ UNCHANGED <<src, rpos, hdr, pos, z, stack, back, large, small_array, outb>>

\* for y in range(0, x): the flag bit of slot y
SmallFlag ==
    /\ pc = "sflag" /\ filled
    /\ back' = LowBits(data, 1)
    /\ data' = Shr(data, 1)
    /\ count' = count - 1
    /\ IF back' # 0
       THEN /\ Go("snib")
            /\ UNCHANGED <<what, num, y>>
       ELSE /\ what' = StoreNibble(what, y, stack)
            /\ num' = num + NonZero(stack)
            /\ y' = IF y + 1 < x THEN y + 1 ELSE y
            /\ Go(IF y + 1 < x THEN "sflag" ELSE "sbuild")
    /\ filled' = FALSE
    /\ UNCHANGED <<src, rpos, hdr, pos, x, z, stack, large, small_array, outb>>

SmallNibble ==
    /\ pc = "snib" /\ filled
    /\ stack' = LowBits(data, 4)
    /\ data' = Shr(data, 4)
    /\ count' = count - 4
    /\ what' = StoreNibble(what, y, stack')
    /\ num' = num + NonZero(stack')
    /\ y' = IF y + 1 < x THEN y + 1 ELSE y
    /\ Go(IF y + 1 < x THEN "sflag" ELSE "sbuild")
    /\ filled' = FALSE
    /\ UNCHANGED <<src, rpos, hdr, pos, x, z, back, large, small_array, outb>>

\* x = self.__fill_buffer(small_array, what, x, num, 8); self.__erratta(x)
BuildSmall ==
    /\ pc = "sbuild"
    /\ \E r \in {FillBuffer(small_array, what, x, num, 8)} :
          LET e == IF r.err # "" THEN r.err ELSE Erratta(r.ret)
          IN  /\ small_array' = r.large
              /\ what' = r.what
              /\ x' = IF r.err # "" THEN x ELSE r.ret
              /\ IF e # "" THEN Raise(e) ELSE Go("emit")
    /\ filled' = FALSE
    /\ UNCHANGED <<src, rpos, hdr, bitr, y, z, stack, num, back, large, outb>>

(***************************************************************************)
(* Mode 1: write data.                                                     *)
(***************************************************************************)
\* x = large[data & 0x3FF]
EmitLookup ==
    /\ pc = "emit" /\ filled
    /\ LET e == At(large, LowBits(data, 10)) IN
       /\ z' = EntryExtra(e)
       /\ x' = EntryData(e)
       /\ IF EntryBits(e) = 0
          THEN /\ y' = Pow2(z') - 1
               /\ UNCHANGED <<data, count>>
               /\ Go("emit_bt")
          ELSE /\ data' = Shr(data, EntryBits(e))
               /\ count' = count - EntryBits(e)
               /\ y' = AfterShift(EntryBits(e))
               /\ Go("token")
    /\ filled' = FALSE
    /\ UNCHANGED <<src, rpos, hdr, pos, stack, num, back, tabs, outb>>

\* backtrack entry: x = large[x + ((data >> 10) & y) + 0x400]
EmitBacktrack ==
    /\ pc = "emit_bt" /\ filled
    /\ LET yv == LowBits(Shr(data, 10), z)
           i == x + yv + 1024
       IN  IF i >= Len(large)
           THEN /\ x' = x + yv /\ y' = yv
                /\ UNCHANGED <<data, count>>
                /\ Raise(IndexErrorList)
           ELSE /\ data' = Shr(data, EntryBits(At(large, i)))
                /\ count' = count - EntryBits(At(large, i))
                /\ y' = AfterShift(EntryBits(At(large, i)))
                /\ x' = EntryData(At(large, i))
                /\ Go("token")
    /\ filled' = FALSE
    /\ UNCHANGED <<src, rpos, hdr, pos, z, stack, num, back, tabs, outb>>

\* the decoded symbol x: a literal, the end of the frame, or a length
Token ==
    /\ pc = "token"
    /\ IF x < 256
       THEN /\ IF array_index >= Len(result)
               THEN Raise(IndexErrorBytes) /\ UNCHANGED outb
               ELSE /\ result' = Put(result, array_index, x)
                    /\ array_index' = array_index + 1
                    /\ IF array_index' > decompressed_size
                       THEN Return(Slice(result', array_index'))
                       ELSE Go("emit")
            /\ UNCHANGED <<z, num>>
       ELSE IF x = 256
       THEN /\ Go("eof")
            /\ UNCHANGED <<z, num, outb>>
       ELSE IF x - 257 >= Len(table2)
       THEN /\ Raise(IndexErrorList)
            /\ UNCHANGED <<z, num, outb>>
       ELSE IF At(table2, x - 257) # 0
       THEN /\ z' = At(table2, x - 257)
            /\ Go("lenx")
            /\ UNCHANGED <<num, outb>>
       ELSE /\ z' = At(table1, x - 257)
            /\ num' = CopyLength(z', y)
            /\ Go("dist")
            /\ UNCHANGED outb
    /\ filled' = FALSE
    /\ UNCHANGED <<src, rpos, hdr, bitr, x, y, stack, back, tabs>>

\* the extra bits of the length
LengthExtra ==
    /\ pc = "lenx" /\ filled
    /\ y' = LowBits(data, z)
    /\ data' = Shr(data, z)
    /\ count' = count - z
    /\ z' = At(table1, x - 257)
    /\ num' = CopyLength(z', y')
    /\ Go("dist")
    /\ filled' = FALSE
    /\ UNCHANGED <<src, rpos, hdr, pos, x, stack, back, tabs, outb>>

\* x = small_array[data & 0xFF]
DistLookup ==
    /\ pc = "dist" /\ filled
    /\ LET e == At(small_array, LowBits(data, 8)) IN
       /\ z' = (e % 128) \div 16
       /\ x' = EntryData(e)
       /\ IF EntryBits(e) = 0
          THEN /\ y' = Pow2(z') - 1
               /\ UNCHANGED <<data, count>>
               /\ Go("dist_bt")
          ELSE /\ data' = Shr(data, EntryBits(e))
               /\ count' = count - EntryBits(e)
               /\ y' = 0
               /\ Go("dtoken")
    /\ filled' = FALSE
    /\ UNCHANGED <<src, rpos, hdr, pos, stack, num, back, tabs, outb>>

\* backtrack entry: x = small_array[x + ((data >> 8) & y) + 0x100]
DistBacktrack ==
    /\ pc = "dist_bt" /\ filled
    /\ LET yv == LowBits(Shr(data, 8), z)
           i == x + yv + 256
       IN  IF i >= Len(small_array)
           THEN /\ x' = x + yv /\ y' = yv
                /\ UNCHANGED <<data, count>>
                /\ Raise(IndexErrorList)
           ELSE /\ data' = Shr(data, EntryBits(At(small_array, i)))
                /\ count' = count - EntryBits(At(small_array, i))
                /\ y' = 0
                /\ x' = EntryData(At(small_array, i))
                /\ Go("dtoken")
    /\ filled' = FALSE
    /\ UNCHANGED <<src, rpos, hdr, pos, z, stack, num, back, tabs, outb>>

\* the decoded distance symbol x
DistToken ==
    /\ pc = "dtoken"
    /\ IF x >= Len(table4)
       THEN /\ Raise(IndexErrorList)
            /\ UNCHANGED <<x, z, back>>
       ELSE IF At(table4, x) # 0
       THEN /\ z' = At(table4, x)
            /\ Go("distx")
            /\ UNCHANGED <<x, back>>
       ELSE IF x >= Len(table3)
       THEN /\ z' = At(table4, x)
            /\ Raise(IndexErrorList)
            /\ UNCHANGED <<x, back>>
       ELSE /\ z' = At(table3, x)
            /\ back' = BackDistance(z', y)
            /\ x' = 0
            /\ Go("copy")
    /\ filled' = FALSE
    /\ UNCHANGED <<src, rpos, hdr, bitr, y, stack, num, tabs, outb>>

\* the extra bits of the distance
DistExtra ==
    /\ pc = "distx" /\ filled
    /\ y' = LowBits(data, z)
    /\ data' = Shr(data, z)
    /\ count' = count - z
    /\ z' = At(table3, x)
    /\ back' = BackDistance(z', y')
    /\ x' = 0
    /\ Go("copy")
    /\ filled' = FALSE
    /\ UNCHANGED <<src, rpos, hdr, pos, stack, num, tabs, outb>>

\* copy run: one step
CopyStep ==
    /\ pc = "copy"
    /\ z' = array_index - back
    /\ x' = CopyByte(result, array_index, back)
    /\ IF array_index >= Len(result)
       THEN /\ Raise(IndexErrorBytes)
            /\ UNCHANGED <<outb, num>>
       ELSE /\ result' = Put(result, array_index, x')
            /\ array_index' = array_index + 1
            /\ IF array_index' > decompressed_size
               THEN Return(Slice(result', array_index')) /\ UNCHANGED num   \* failsafe
               ELSE /\ num' = num - 1
                    /\ Go(IF num' > 0 THEN "copy" ELSE "emit")
    /\ filled' = FALSE
    /\ UNCHANGED <<src, rpos, hdr, bitr, y, stack, back, tabs>>

(***************************************************************************)
(* decompress(reader, writer): __decompress_internal writes the buffer.    *)
(***************************************************************************)
WriterWrite ==
    /\ pc = "returned"
    /\ writer' = Append(writer, ret)
    /\ pc' = "written"
    /\ filled' = FALSE
    /\ UNCHANGED <<src, rpos, hdr, bitr, regs, tabs, outb, ret, err>>

Next ==
    \/ DecompressAsBytearray
    \/ DecompressEdl0
    \/ Helper
    \/ FrameLoop
    \/ ReadMode
    \/ RawNum
    \/ RawByte
    \/ EofTest
    \/ ReadLargeCount
    \/ LargeFlag
    \/ LargeNibble
    \/ BuildLarge
    \/ ReadSmallCount
    \/ SmallFlag
    \/ SmallNibble
    \/ BuildSmall
    \/ EmitLookup
    \/ EmitBacktrack
    \/ Token
    \/ LengthExtra
    \/ DistLookup
    \/ DistBacktrack
    \/ DistToken
    \/ DistExtra
    \/ CopyStep
    \/ WriterWrite

Spec == Init /\ [][Next]_vars

\* the call is a sequential program: a step that can be taken is taken
FairSpec == Spec /\ WF_vars(Next)

(***************************************************************************)
(* __fill_buffer alone: the decoder is placed just before one of its two   *)
(* calls (large table, buf_size 10; small table, buf_size 8) with a length *)
(* vector in what, its length in x and its count of nonzero entries in     *)
(* num, as the nibble loops leave them.                                    *)
(***************************************************************************)
\* code lengths around buf_size k: absent, short, k, and above k
FillLengths(k) == {0, 2, k, k + 1, k + 2}

FillVectors(k) == {v \in SeqsUpTo(FillLengths(k), MaxTotal) : v # <<>>}

NonZeroCount(v) == Cardinality({i \in 1..Len(v) : v[i] # 0})

FillInit ==
    /\ \E k \in {8, 10} : \E v \in FillVectors(k) :
          /\ what = v \o Zeros(1024 - Len(v))
          /\ x = Len(v)
          /\ num = NonZeroCount(v)
          /\ pc = IF k = 10 THEN "lbuild" ELSE "sbuild"
    /\ file = <<>> /\ stream_offset = 0 /\ rpos = 0
    /\ compression_type = 1 /\ endian = "Little"
    /\ compressed_size = 0 /\ decompressed_size = 0
    /\ filled = FALSE
    /\ data = <<>> /\ count = 0 /\ pos = 12
    /\ y = 0 /\ z = 0 /\ stack = 0 /\ back = 0
    /\ large = Zeros(1536) /\ small_array = Zeros(1536)
    /\ result = <<>> /\ array_index = 0
    /\ ret = <<>> /\ err = "" /\ writer = <<>>

FillNext ==
    \/ BuildLarge
    \/ BuildSmall

FillSpec == FillInit /\ [][FillNext]_vars

(***************************************************************************)
(* What the properties below read off the input itself.                    *)
(***************************************************************************)
\* the container: the reader's bytes from its position at the call
Container == SubSeq(file, stream_offset + 1, Len(file))

GoodMagic == Len(Container) >= 3 /\ SubSeq(Container, 1, 3) = <<69, 68, 76>>

FlagsByte == Container[4]

LowNibble == FlagsByte % 16

\* the decompressed_size the header declares: bytes 8..11, most significant
\* first when bit 7 of the flags byte is set
DeclaredSize ==
    LET b == Container
    IN  IF FlagsByte >= 128
        THEN ((b[9] * 256 + b[10]) * 256 + b[11]) * 256 + b[12]
        ELSE ((b[12] * 256 + b[11]) * 256 + b[10]) * 256 + b[9]

Ended == {"returned", "raised", "written"}

\* the decoder is about to store an output byte
Emitting == (pc = "token" /\ x < 256) \/ pc = "copy" \/ (pc = "raw" /\ filled)

\* the step is a refill
RefillStep == pc \in RefillPCs /\ ~filled

(***************************************************************************)
(* C1                                                                      *)
(***************************************************************************)
\* C1: whenever decompress returns a buffer (EOF-marker return, failsafe
\* return, loop-exit return or EDL-0 copy), the buffer holds at most the
\* declared decompressed_size bytes.
C1_ReturnedLengthAtMostDeclared ==
    pc \in {"returned", "written"} => Len(ret) <= DeclaredSize

\* an EDL-0 payload longer than the declared size was returned, cut to it
C1_Witness ==
    /\ pc = "returned" /\ LowNibble = 0
    /\ DeclaredSize > 0 /\ Len(Container) - 12 > DeclaredSize
    /\ Len(ret) = DeclaredSize

(***************************************************************************)
(* C2                                                                      *)
(***************************************************************************)
\* C2: when the decoder is about to store a byte (a literal, a copy step, a
\* mode-0 raw byte) and decompressed_size bytes are already written, it does
\* not fail: it stops and returns the bytes already written.
C2_OverflowReturnsPrefix ==
    [][(Emitting /\ array_index >= decompressed_size)
          => (pc' = "returned" /\ ret' = Slice(result, array_index))]_vars

(***************************************************************************)
(* C3                                                                      *)
(***************************************************************************)
\* C3: every decode call eventually ends, returning a buffer or raising.
C3_CallEnds == <>(pc \in Ended)

(***************************************************************************)
(* C4                                                                      *)
(***************************************************************************)
\* C4: the buffer returned on the EOF marker holds exactly the array_index
\* bytes that were emitted (so a first frame of mode 0 with num = 0 followed
\* by EOF bit 1 returns an empty buffer, whatever decompressed_size is).
C4_EofReturnsEmittedBytes ==
    [][(pc = "eof" /\ pc' = "returned") => ret' = Slice(result, array_index)]_vars

(***************************************************************************)
(* C5                                                                      *)
(***************************************************************************)
\* C5: a copy step that stores a byte stores it at array_index and advances
\* array_index by one, leaving the earlier output as it was; the byte is
\* output[array_index - back] when 0 <= array_index - back < array_index and
\* 0 when array_index - back < 0; back is at least 1, so the byte read was
\* emitted earlier in this call.
C5_CopyStepReadsEmitted ==
    [][(pc = "copy" /\ pc' # "raised")
          => /\ back >= 1
             /\ array_index' = array_index + 1
             /\ Len(result') = Len(result)
             /\ \A i \in 1..array_index : result'[i] = result[i]
             /\ result'[array_index + 1] =
                   IF array_index - back < 0 THEN 0 ELSE result[array_index - back + 1]]_vars

\* a copy whose distance points before the output start has stored a zero
\* and has steps left
C5_Witness ==
    /\ pc = "copy" /\ num > 0
    /\ z < 0 /\ array_index > 0
    /\ At(result, array_index - 1) = 0
    /\ \E i \in 1..array_index : result[i] # 0

(***************************************************************************)
(* C6                                                                      *)
(***************************************************************************)
\* C6: a refill with the reader at or past the end of the source leaves the
\* bit count, the accumulator and pos unchanged; a refill with source data
\* available and at most 32 bits held adds min(4, decompressed_size - pos) * 8
\* to the bit count and min(4, decompressed_size - pos) to pos.
C6_RefillEffect ==
    [][(RefillStep /\ pc' # "raised")
          => IF rpos >= Len(file)
             THEN count' = count /\ data' = data /\ pos' = pos
             ELSE count <= 32
                     => /\ count' = count + 8 * Min(4, decompressed_size - pos)
                        /\ pos' = pos + Min(4, decompressed_size - pos)]_vars

(***************************************************************************)
(* C7                                                                      *)
(***************************************************************************)
\* C7: once the header is parsed, an input whose first three bytes are not
\* 'EDL' or whose flags byte has a low nibble other than 0 and 1 has raised
\* and nothing was written to the writer; any other input is in the raw copy
\* when the low nibble is 0 and in the coded decode when it is 1, whatever
\* the endian bit and bits 4..6 of the flags byte are.
C7_HeaderErrorsAndDispatch ==
    pc # "start"
       => IF ~GoodMagic \/ LowNibble \notin {0, 1}
          THEN pc = "raised" /\ writer = <<>> /\ ret = <<>>
          ELSE IF LowNibble = 0
          THEN pc \in {"edl0", "returned", "written"} /\ compression_type = 0
          ELSE pc # "edl0" /\ compression_type = 1

\* a big-endian flags byte with compression type 2 was refused
C7_Witness ==
    /\ pc = "raised" /\ GoodMagic /\ FlagsByte = 130
    /\ err = "ValueError: Unsupported compression type"
    /\ writer = <<>>

(***************************************************************************)
(* C8                                                                      *)
(***************************************************************************)
\* C8: for an EDL-0 input F with declared decompressed_size N, decompress
\* returns F[12 : 12 + min(len(F) - 12, N)], for both endian flag values.
C8_Edl0ReturnsPayload ==
    (pc \in {"returned", "written"} /\ GoodMagic /\ LowNibble = 0)
       => ret = SubSeq(Container, 13, 12 + Min(Len(Container) - 12, DeclaredSize))

\* a big-endian EDL-0 file at a non-zero reader position, two payload bytes,
\* declared size 1: the first payload byte was returned
C8_Witness ==
    /\ pc = "returned" /\ stream_offset = 2
    /\ GoodMagic /\ FlagsByte = 128
    /\ Len(Container) = 14 /\ DeclaredSize = 1
    /\ ret = <<Container[13]>>

(***************************************************************************)
(* C9                                                                      *)
(***************************************************************************)
\* the length vector handed to fill_buffer
Lengths == SubSeq(what, 1, x)

\* symbol t (1-based position in v) is coded before symbol s: shorter first,
\* then by index
CodedBefore(v, t, s) == v[t] # 0 /\ (v[t] < v[s] \/ (v[t] = v[s] /\ t < s))

\* the canonical code value of symbol s: every symbol coded before it takes
\* 2^(L_s - L_t) code values of length L_s
RECURSIVE CanonicalFrom(_, _, _)
CanonicalFrom(v, s, t) ==
    IF t > Len(v) THEN 0
    ELSE (IF CodedBefore(v, t, s) THEN Pow2(v[s] - v[t]) ELSE 0) + CanonicalFrom(v, s, t + 1)

CanonicalCode(v, s) == CanonicalFrom(v, s, 1)

\* the n-bit value c, most significant bit first
RECURSIVE ReverseBits(_, _)
ReverseBits(c, n) ==
    IF n = 0 THEN 0 ELSE (c % 2) * Pow2(n - 1) + ReverseBits(c \div 2, n - 1)

RECURSIVE KraftFrom(_, _)
KraftFrom(v, t) ==
    IF t > Len(v) THEN 0
    ELSE (IF v[t] # 0 THEN Pow2(15 - v[t]) ELSE 0) + KraftFrom(v, t + 1)

\* the lengths describe a prefix code
PrefixCode(v) == (\A t \in 1..Len(v) : v[t] \in 0..15) /\ KraftFrom(v, 1) <= Pow2(15)

RECURSIVE LongestFrom(_, _)
LongestFrom(v, t) ==
    IF t > Len(v) THEN 0
    ELSE LET m == LongestFrom(v, t + 1) IN IF v[t] > m THEN v[t] ELSE m

\* every accumulator value whose low L bits are the bit-reversed canonical
\* code of a symbol selects that symbol's entry
Decodes(v, tab, k) ==
    LET width == IF LongestFrom(v, 1) > k THEN LongestFrom(v, 1) ELSE k
    IN  \A s \in 1..Len(v) :
           v[s] # 0 =>
              \A j \in 0..(Pow2(width - v[s]) - 1) :
                 Lookup(tab, k, ReverseBits(CanonicalCode(v, s), v[s]) + Pow2(v[s]) * j)
                    = (s - 1) * 128 + v[s]

\* C9: when fill_buffer returns 0 for a length vector that describes a prefix
\* code, the table decodes every symbol: every accumulator value whose low L
\* bits are the bit-reversed canonical code of a symbol s of length L selects,
\* through the primary entry or the secondary entry behind it, the entry
\* (s << 7) | L; symbols of equal length have consecutive code values in
\* increasing index order.
C9_TableDecodesEverySymbol ==
    [][/\ (pc = "lbuild" /\ pc' = "scount" /\ x' = 0 /\ PrefixCode(Lengths))
             => Decodes(Lengths, large', 10)
       /\ (pc = "sbuild" /\ pc' = "emit" /\ x' = 0 /\ PrefixCode(Lengths))
             => Decodes(Lengths, small_array', 8)]_vars

\* a large table was built for one code shorter than buf_size, one of
\* buf_size bits and one longer: 00, 0100000000 and 010000000100
C9_Witness ==
    /\ pc = "scount" /\ x = 0
    /\ SubSeq(what, 1, 4) = <<2, 10, 12, 0>>
    /\ EntryBits(At(large, 0)) = 2
    /\ \E s \in 0..2 : Lookup(large, 10, ReverseBits(1028, 12)) = s * 128 + 12

(***************************************************************************)
(* C10                                                                     *)
(***************************************************************************)
\* C10: a decoded length symbol whose index x - 0x101 is outside 0..28, and a
\* decoded distance symbol outside 0..29, stops the decoding with an error.
C10_OutOfRangeSymbolRaises ==
    [][/\ (pc = "token" /\ x > 256 /\ x - 257 \notin 0..28) => pc' = "raised"
       /\ (pc = "dtoken" /\ x \notin 0..29) => pc' = "raised"]_vars

(***************************************************************************)
(* C11                                                                     *)
(***************************************************************************)
\* the first n slots of the large table hold num nonzero values and the
\* slots after them, up to the count x, are still zero
SlotsAssigned(n) ==
    /\ num = Cardinality({i \in 1..n : what[i] # 0})
    /\ \A i \in (n + 1)..x : what[i] = 0

\* y is 0 at the start of every frame and when the large-table count is read
FrameStartsAtZero == pc \in {"loop", "mode", "lcount"} => y = 0

\* while the large table's slots are read, y slots are assigned and y < x;
\* when fill_buffer is called, all x slots are and num counts the nonzero ones
SlotsCounted ==
    /\ pc \in {"lflag", "lnib"} => y < x /\ SlotsAssigned(y)
    /\ pc = "lbuild" => y = x /\ SlotsAssigned(x)

\* a flag bit 0 assigns the carried-forward nibble to slot y, a flag bit 1
\* has a fresh nibble read and assigned to slot y; either way one flag bit is
\* read per slot
SlotStep ==
    /\ (pc = "lflag" /\ filled /\ LowBits(data, 1) = 0)
          => /\ what' = Put(what, y, stack) /\ y' = y + 1
             /\ data' = Shr(data, 1) /\ stack' = stack
    /\ (pc = "lflag" /\ filled /\ LowBits(data, 1) = 1)
          => pc' = "lnib" /\ y' = y /\ what' = what /\ data' = Shr(data, 1)
    /\ (pc = "lnib" /\ filled)
          => /\ what' = Put(what, y, LowBits(data, 4)) /\ y' = y + 1
             /\ stack' = LowBits(data, 4)

\* C11: in every mode-1 frame whose large-table symbol count x is non-zero,
\* whatever frames were decoded before it, the slot index y starts at 0:
\* exactly x flag bits are read, each of what[0..x-1] is assigned (a fresh
\* nibble when the flag is 1, the carried-forward nibble when it is 0), and
\* the num passed to fill_buffer is the number of nonzero values assigned;
\* y is 0 at the start of every frame.
C11_LargeSlotIndexStartsAtZero ==
    [](FrameStartsAtZero /\ SlotsCounted) /\ [][SlotStep]_vars

\* the large table of a third frame is about to be built from all its 290
\* slots, after a mode-1 frame with a copy that read extra bits and a mode-0
\* frame: 16 bytes are out, the last two the raw bytes 7 and 9
C11_Witness ==
    /\ pc = "lbuild" /\ x = 290 /\ y = x /\ num = 10
    /\ array_index = 16
    /\ At(result, 14) = 7 /\ At(result, 15) = 9
    /\ At(what, 289) = 8

====
